---------------------------- MODULE Spec2Model ----------------------------
(***************************************************************************)
(* Booking-intake service (POST /book-service).  The repository holds     *)
(* three snapshots of handleBooking that carry the assignment and         *)
(* write-then-mirror logic:                                               *)
(*   "remote" : src/unnamed/part_000:198-323  centers fetched from the    *)
(*              external API, least-load choice, CENTER_001 fallback      *)
(*   "local"  : src/main.go:571-713  centers queried from the local       *)
(*              service_centers collection, least-load with capacity      *)
(*   "prefix" : src/main.go:209-342  centers fetched by company-name      *)
(*              prefix, maximum free capacity, no mirror update           *)
(* A deployment runs one snapshot; `variant` says which.                  *)
(***************************************************************************)
EXTENDS Integers, Sequences, FiniteSets, TLC

VARIABLES
    variant,        \* which snapshot of handleBooking is deployed
    bookings,       \* techathon_db.Bookings   (set of documents, _id = oid)
    logs,           \* techathon_db.Logs       (set of documents, _id = oid)
    centers,        \* auto_ai_db.service_centers (sequence, natural order)
    pc,             \* per request: position in handleBooking
    req,            \* per request: the decoded body
    finalCenterID,  \* per request: local finalCenterID
    isAutoAssigned, \* per request: local isAutoAssigned
    lookup,         \* per request: outcome of the directory call ("none" = not called)
    insertErr,      \* per request: outcome of bookingCollection.InsertOne
    logErr,         \* per request: outcome of logsCollection.InsertOne
    mirror,         \* per request: the detached center update goroutine
    resp,           \* per request: the HTTP response written
    seen,           \* history: what Bookings held for the vehicle on arrival
    candidates,     \* selector harness: the candidate list under test
    chosen          \* selector harness: what each policy chose

vars == <<variant, bookings, logs, centers, pc, req, finalCenterID,
          isAutoAssigned, lookup, insertErr, logErr, mirror, resp, seen,
          candidates, chosen>>

storeVars == <<bookings, logs, centers>>
harnessVars == <<candidates, chosen>>

-----------------------------------------------------------------------------
(* Bounds *)

MaxReq == 2        \* number of POST /book-service requests
MaxCands == 2      \* longest candidate list given to a selector
MaxLoad == 2       \* largest len(bookings) of a candidate
MaxCap == 2        \* largest capacity of a candidate

(* Program constants *)

MinBookingsInit == 999999   \* minBookings := 999999
MaxFreeSlotsInit == -1      \* maxFreeSlots := -1
FallbackCenter == "CENTER_001"

Requests == 1..MaxReq
Variants == {"remote", "local", "prefix"}

Absent == "<absent>"        \* a JSON field the response does not carry
NoCenter == 0               \* nil bestCenter / selectedCenter (index 0)

-----------------------------------------------------------------------------
(* Data *)

Vehicles == {"V1", "V2"}

\* confirmationCode, status, isScheduled, serviceCenterId of the bodies sent
Profiles ==
    { <<"KA", "Pending", FALSE, "">>,
      <<"KA", "Pending", TRUE, "C1">>,
      <<"KB", "Confirmed", TRUE, "null">>,
      <<"KB", "Confirmed", FALSE, "C1">> }

\* the decoded request body (fields a snapshot's struct lacks are ignored by it)
Bodies ==
    { [vehicleId |-> v, confirmationCode |-> p[1], status |-> p[2],
       isScheduled |-> p[3], serviceCenterId |-> p[4], dateTime |-> "T1",
       userId |-> "U1"] :
        v \in Vehicles, p \in Profiles }

NoReq == [vehicleId |-> Absent, confirmationCode |-> Absent, status |-> Absent,
          isScheduled |-> FALSE, serviceCenterId |-> Absent, dateTime |-> Absent,
          userId |-> Absent]

\* "USR_" + req.VehicleID
UsrOf(v) ==
    CASE v = "V1" -> "USR_V1"
      [] v = "V2" -> "USR_V2"
      [] v = "V0" -> "USR_V0"

\* "ASSIGNED_CENTER_" + selectedCenter.CenterID
AssignedCenterAction(id) ==
    CASE id = ""   -> "ASSIGNED_CENTER_"
      [] id = "C1" -> "ASSIGNED_CENTER_C1"
      [] id = "C2" -> "ASSIGNED_CENTER_C2"
      [] id = "C3" -> "ASSIGNED_CENTER_C3"
      [] id = "C4" -> "ASSIGNED_CENTER_C4"

\* the name field of a center document
NameOf(id) ==
    CASE id = ""   -> "Unnamed"
      [] id = "C1" -> "North"
      [] id = "C2" -> "South"
      [] id = "C3" -> "East"
      [] id = "C4" -> "West"

\* a booking that was in a center's list before the requests of the model
OldBooking == [vehicleId |-> "V0", confirmationCode |-> "K0", status |-> "Done",
               isScheduled |-> TRUE, serviceCenterId |-> Absent,
               dateTime |-> "T0", userId |-> UsrOf("V0")]

Old(n) == [i \in 1..n |-> OldBooking]

Center(id, cap, act, n) ==
    [id |-> id, name |-> NameOf(id), capacity |-> cap, isActive |-> act,
     bookings |-> Old(n)]

\* contents of service_centers at start, and the lists the external API returns
DirectoryLists ==
    { <<>>,
      <<Center("C1", 1, TRUE, 0), Center("C2", 2, TRUE, 1)>>,
      <<Center("", 1, TRUE, 0), Center("C2", 1, FALSE, 0)>> }

-----------------------------------------------------------------------------
(* Center Directory *)

\* local: serviceCenterCollection.Find(ctx, bson.M{"is_active": true})
ActiveCenters(coll) == SelectSeq(coll, LAMBDA c : c.isActive)

-----------------------------------------------------------------------------
(* Assignment Selector: the three loops, as index into the candidate list *)

Load(c) == Len(c.bookings)

\* remote: for _, center := range centers { if len(center.Bookings) < minBookings {..} }
RECURSIVE LeastLoadScanLast(_, _, _, _)
LeastLoadScanLast(cs, i, minBookings, best) ==
    IF i > Len(cs) THEN best
    ELSE IF Load(cs[i]) <= minBookings
         THEN LeastLoadScanLast(cs, i + 1, Load(cs[i]), i)
         ELSE LeastLoadScanLast(cs, i + 1, minBookings, best)

RECURSIVE LeastLoadScan(_, _, _, _)
LeastLoadScan(cs, i, minBookings, best) ==
    IF i > Len(cs) THEN best
    ELSE IF Load(cs[i]) < minBookings
         THEN LeastLoadScan(cs, i + 1, Load(cs[i]), i)
         ELSE LeastLoadScan(cs, i + 1, minBookings, best)

SelectRemote(cs) == LeastLoadScan(cs, 1, MinBookingsInit, NoCenter)

RECURSIVE CapacityScanNoCapacity(_, _, _, _)
CapacityScanNoCapacity(cs, i, minBookings, best) ==
    IF i > Len(cs) THEN best
    ELSE IF Load(cs[i]) < minBookings
         THEN CapacityScanNoCapacity(cs, i + 1, Load(cs[i]), i)
         ELSE CapacityScanNoCapacity(cs, i + 1, minBookings, best)

\* local: if currentLoad < minBookings && currentLoad < centers[i].Capacity {..}
RECURSIVE CapacityScan(_, _, _, _)
CapacityScan(cs, i, minBookings, best) ==
    IF i > Len(cs) THEN best
    ELSE IF Load(cs[i]) < minBookings /\ Load(cs[i]) < cs[i].capacity
         THEN CapacityScan(cs, i + 1, Load(cs[i]), i)
         ELSE CapacityScan(cs, i + 1, minBookings, best)

\* local: bestCenter = &centers[0]; for i := range centers { if len(..) < len(best..) }
RECURSIVE FallbackScan(_, _, _)
FallbackScan(cs, i, best) ==
    IF i > Len(cs) THEN best
    ELSE IF Load(cs[i]) < Load(cs[best])
         THEN FallbackScan(cs, i + 1, i)
         ELSE FallbackScan(cs, i + 1, best)

\* local: cs is non-empty here (len(centers) == 0 returned 404 before)
SelectLocalNoFallback(cs) == CapacityScan(cs, 1, MinBookingsInit, NoCenter)

SelectLocal(cs) ==
    LET bestCenter == CapacityScan(cs, 1, MinBookingsInit, NoCenter)
    IN  IF bestCenter = NoCenter THEN FallbackScan(cs, 1, 1) ELSE bestCenter

\* prefix: if center.IsActive { freeSlots := cap - len; if freeSlots > maxFreeSlots {..} }
RECURSIVE MaxFreeScanLast(_, _, _, _)
MaxFreeScanLast(cs, i, maxFreeSlots, best) ==
    IF i > Len(cs) THEN best
    ELSE IF cs[i].isActive /\ cs[i].capacity - Load(cs[i]) >= maxFreeSlots
         THEN MaxFreeScanLast(cs, i + 1, cs[i].capacity - Load(cs[i]), i)
         ELSE MaxFreeScanLast(cs, i + 1, maxFreeSlots, best)

RECURSIVE MaxFreeScan(_, _, _, _)
MaxFreeScan(cs, i, maxFreeSlots, best) ==
    IF i > Len(cs) THEN best
    ELSE IF cs[i].isActive /\ cs[i].capacity - Load(cs[i]) > maxFreeSlots
         THEN MaxFreeScan(cs, i + 1, cs[i].capacity - Load(cs[i]), i)
         ELSE MaxFreeScan(cs, i + 1, maxFreeSlots, best)

SelectPrefix(cs) == MaxFreeScan(cs, 1, MaxFreeSlotsInit, NoCenter)

-----------------------------------------------------------------------------
(* Selector harness: every policy applied to every bounded candidate list *)

CenterNames == <<"C1", "C2", "C3", "C4">>

Shapes == [hasId : BOOLEAN, capacity : 0..MaxCap, isActive : BOOLEAN, load : 0..MaxLoad]

ListOf(f) ==
    [i \in DOMAIN f |->
        Center(IF f[i].hasId THEN CenterNames[i] ELSE "",
               f[i].capacity, f[i].isActive, f[i].load)]

CandLists == UNION { { ListOf(f) : f \in [1..n -> Shapes] } : n \in 0..MaxCands }

NoChoice == [policy |-> "none", found |-> FALSE, id |-> Absent, index |-> NoCenter]

Choice(policy, cs, idx) ==
    [policy |-> policy, found |-> idx # NoCenter,
     id |-> IF idx = NoCenter THEN Absent ELSE cs[idx].id, index |-> idx]

-----------------------------------------------------------------------------
(* HTTP responses: c.JSON(status, gin.H{...}) *)

Resp(status, error, message, bookingStatus, logId, center, centerId) ==
    [status |-> status, error |-> error, message |-> message,
     bookingStatus |-> bookingStatus, generatedLogId |-> logId,
     assignedCenter |-> center, assignedCenterId |-> centerId]

NoResp == Resp(0, Absent, Absent, Absent, Absent, Absent, Absent)

ErrorResp(status, error) ==
    Resp(status, error, Absent, Absent, Absent, Absent, Absent)

\* rand.Intn(10000) formatted into LOG_<date>_<nnnn>
LogIds == {"LOG_20250101_0042"}

-----------------------------------------------------------------------------
(* Documents *)

\* remote, local: bookingToSave := DBBooking{...}
BookingToSave(r) ==
    [vehicleId |-> req[r].vehicleId,
     confirmationCode |-> req[r].confirmationCode,
     status |-> req[r].status,
     isScheduled |-> req[r].isScheduled,
     serviceCenterId |-> finalCenterID[r],
     dateTime |-> req[r].dateTime,
     userId |-> UsrOf(req[r].vehicleId)]

\* prefix: newBooking := DBBooking{...}
NewBooking(r) ==
    [vehicleId |-> req[r].vehicleId,
     confirmationCode |-> req[r].confirmationCode,
     status |-> req[r].status,
     isScheduled |-> TRUE,
     serviceCenterName |-> NameOf(finalCenterID[r]),
     serviceCenterId |-> finalCenterID[r],
     dateTime |-> req[r].dateTime,
     userId |-> req[r].userId]

BookingOf(r) == IF variant = "prefix" THEN NewBooking(r) ELSE BookingToSave(r)

\* InsertOne stores the document under a fresh _id
Stored(r, doc) == [oid |-> r] @@ doc

\* remote, local: Action "CREATED", overwritten when isAutoAssigned
ActionOf(r) == IF isAutoAssigned[r] THEN "AUTO_ASSIGNED_CREATED" ELSE "CREATED"

\* remote, local: logEntry := LogEntry{...}
LogEntry(r, logId) ==
    [logId |-> logId,
     userId |-> UsrOf(req[r].vehicleId),
     vehicleId |-> req[r].vehicleId,
     logType |-> "BOOKING",
     confirmationCode |-> req[r].confirmationCode,
     status |-> req[r].status,
     serviceCenter |-> finalCenterID[r],
     scheduledAt |-> req[r].dateTime,
     isScheduled |-> req[r].isScheduled,
     action |-> ActionOf(r)]

\* prefix: newLog := LogEntry{...}
NewLog(r, logId) ==
    [logId |-> logId,
     userId |-> req[r].userId,
     vehicleId |-> req[r].vehicleId,
     logType |-> "BOOKING_CONFIRMED",
     confirmationCode |-> req[r].confirmationCode,
     status |-> "CONFIRMED",
     serviceCenter |-> NameOf(finalCenterID[r]),
     scheduledAt |-> req[r].dateTime,
     isScheduled |-> TRUE,
     action |-> AssignedCenterAction(finalCenterID[r])]

LogOf(r, logId) == IF variant = "prefix" THEN NewLog(r, logId) ELSE LogEntry(r, logId)

-----------------------------------------------------------------------------
(* Initial state *)

Init ==
    /\ variant \in Variants
    /\ bookings = {}
    /\ logs = {}
    /\ centers \in (IF variant = "prefix" THEN {<<>>} ELSE DirectoryLists)
    /\ pc = [r \in Requests |-> "idle"]
    /\ req = [r \in Requests |-> NoReq]
    /\ finalCenterID = [r \in Requests |-> Absent]
    /\ isAutoAssigned = [r \in Requests |-> FALSE]
    /\ lookup = [r \in Requests |-> "none"]
    /\ insertErr = [r \in Requests |-> "none"]
    /\ logErr = [r \in Requests |-> "none"]
    /\ mirror = [r \in Requests |-> "none"]
    /\ resp = [r \in Requests |-> NoResp]
    /\ seen = [r \in Requests |-> "none"]
    /\ candidates = <<>>
    /\ chosen = NoChoice

-----------------------------------------------------------------------------
(* handleBooking, up to the booking write *)

\* what Bookings holds for vehicle v (recorded on arrival, never read by the code)
Holds(v) ==
    IF \E b \in bookings : b.vehicleId = v /\ b.isScheduled THEN "scheduled"
    ELSE IF \E b \in bookings : b.vehicleId = v THEN "unscheduled"
    ELSE "absent"

\* requests are numbered in order of arrival
Arrives(r) == pc[r] = "idle" /\ (IF r = 1 THEN TRUE ELSE pc[r - 1] # "idle")

AbortNoReturn(r, body, look, status, error) ==
    /\ pc' = [pc EXCEPT ![r] = "persist"]
    /\ req' = [req EXCEPT ![r] = body]
    /\ lookup' = [lookup EXCEPT ![r] = look]
    /\ resp' = [resp EXCEPT ![r] = ErrorResp(status, error)]
    /\ seen' = [seen EXCEPT ![r] = Holds(body.vehicleId)]
    /\ finalCenterID' = [finalCenterID EXCEPT ![r] = body.serviceCenterId]
    /\ UNCHANGED isAutoAssigned

\* the request ends here with an error response
Abort(r, body, look, status, error) ==
    /\ pc' = [pc EXCEPT ![r] = "done"]
    /\ req' = [req EXCEPT ![r] = body]
    /\ lookup' = [lookup EXCEPT ![r] = look]
    /\ resp' = [resp EXCEPT ![r] = ErrorResp(status, error)]
    /\ seen' = [seen EXCEPT ![r] = Holds(body.vehicleId)]
    /\ UNCHANGED <<finalCenterID, isAutoAssigned>>

\* the request goes on to the booking write with center id
Proceed(r, body, look, id, auto) ==
    /\ pc' = [pc EXCEPT ![r] = "persist"]
    /\ req' = [req EXCEPT ![r] = body]
    /\ lookup' = [lookup EXCEPT ![r] = look]
    /\ finalCenterID' = [finalCenterID EXCEPT ![r] = id]
    /\ isAutoAssigned' = [isAutoAssigned EXCEPT ![r] = auto]
    /\ seen' = [seen EXCEPT ![r] = Holds(body.vehicleId)]
    /\ UNCHANGED resp

\* if finalCenterID == "" || finalCenterID == "null"
CenterMissing(id) == id = "" \/ id = "null"

FallbackNotMarked(r, body) == Proceed(r, body, "failed", FallbackCenter, FALSE)

\* remote: fetchAllCenters failed: finalCenterID = "CENTER_001"; isAutoAssigned = true
Fallback(r, body) == Proceed(r, body, "failed", FallbackCenter, TRUE)

\* c.ShouldBindJSON fails
BadJSON(r) ==
    /\ Arrives(r)
    /\ pc' = [pc EXCEPT ![r] = "done"]
    /\ resp' = [resp EXCEPT ![r] = ErrorResp(400, "Invalid JSON")]
    /\ UNCHANGED <<variant, storeVars, req, finalCenterID, isAutoAssigned, lookup,
                   insertErr, logErr, mirror, seen, harnessVars>>

StartRemote(r) ==
    /\ variant = "remote"
    /\ Arrives(r)
    /\ \E body \in Bodies :
        IF ~CenterMissing(body.serviceCenterId)
        THEN Proceed(r, body, "none", body.serviceCenterId, FALSE)
        ELSE \/ Fallback(r, body)
             \/ \E cs \in DirectoryLists :
                  LET bestCenter == SelectRemote(cs)
                  IN  IF bestCenter = NoCenter
                      THEN Abort(r, body, "ok", 404, "No centers available")
                      ELSE Proceed(r, body, "ok", cs[bestCenter].id, TRUE)
    /\ UNCHANGED <<variant, storeVars, insertErr, logErr, mirror, harnessVars>>

StartLocal(r) ==
    /\ variant = "local"
    /\ Arrives(r)
    /\ \E body \in Bodies :
        IF ~CenterMissing(body.serviceCenterId)
        THEN Proceed(r, body, "none", body.serviceCenterId, FALSE)
        ELSE \/ \E e \in {"Failed to query service centers from DB",
                          "Failed to decode service centers"} :
                  Abort(r, body, "failed", 500, e)
             \/ LET cs == ActiveCenters(centers)
                IN  IF Len(cs) = 0
                    THEN Abort(r, body, "ok", 404,
                               "No active service centers found in database")
                    ELSE Proceed(r, body, "ok", cs[SelectLocal(cs)].id, TRUE)
    /\ UNCHANGED <<variant, storeVars, insertErr, logErr, mirror, harnessVars>>

StartPrefix(r) ==
    /\ variant = "prefix"
    /\ Arrives(r)
    /\ \E body \in Bodies :
        \/ Abort(r, body, "failed", 502, "Could not fetch service centers for company")
        \/ \E cs \in DirectoryLists :
             LET selectedCenter == SelectPrefix(cs)
             IN  IF Len(cs) = 0
                 THEN Abort(r, body, "ok", 404, "No service centers found for company")
                 ELSE IF selectedCenter = NoCenter
                 THEN Abort(r, body, "ok", 404,
                            "No active service centers found with availability")
                 ELSE Proceed(r, body, "ok", cs[selectedCenter].id, FALSE)
    /\ UNCHANGED <<variant, storeVars, insertErr, logErr, mirror, harnessVars>>

-----------------------------------------------------------------------------
(* handleBooking, from the booking write on *)

\* bookingCollection.InsertOne(ctx, bookingToSave) succeeds
PersistOk(r) ==
    /\ pc[r] = "persist"
    /\ bookings' = bookings \cup {Stored(r, BookingOf(r))}
    /\ insertErr' = [insertErr EXCEPT ![r] = "ok"]
    /\ pc' = [pc EXCEPT ![r] = "log"]
    /\ UNCHANGED <<variant, logs, centers, req, finalCenterID, isAutoAssigned,
                   lookup, logErr, mirror, resp, seen, harnessVars>>

PersistFailNoReturn(r) ==
    /\ pc[r] = "persist"
    /\ insertErr' = [insertErr EXCEPT ![r] = "err"]
    /\ resp' = [resp EXCEPT ![r] = ErrorResp(500, "DB Save Failed")]
    /\ pc' = [pc EXCEPT ![r] = "log"]
    /\ UNCHANGED <<variant, storeVars, req, finalCenterID, isAutoAssigned,
                   lookup, logErr, mirror, seen, harnessVars>>

\* InsertOne returns an error: 500 and return
PersistFail(r) ==
    /\ pc[r] = "persist"
    /\ insertErr' = [insertErr EXCEPT ![r] = "err"]
    /\ resp' = [resp EXCEPT ![r] =
                  ErrorResp(500, IF variant = "prefix"
                                 THEN "Failed to save booking locally"
                                 ELSE "DB Save Failed")]
    /\ pc' = [pc EXCEPT ![r] = "done"]
    /\ UNCHANGED <<variant, storeVars, req, finalCenterID, isAutoAssigned,
                   lookup, logErr, mirror, seen, harnessVars>>

\* go func() { ... }() : remote and local spawn the center update, prefix has none
Spawn(r) ==
    IF variant = "prefix" THEN UNCHANGED mirror
    ELSE mirror' = [mirror EXCEPT ![r] = "pending"]

\* the 200 response, built from logID and finalCenterID
Success(r, logId) ==
    CASE variant = "remote" ->
            Resp(200, Absent, "Successfully saved", "Confirmed", logId, Absent, Absent)
      [] variant = "local" ->
            Resp(200, Absent, "Successfully saved", "Confirmed", logId,
                 finalCenterID[r], Absent)
      [] variant = "prefix" ->
            Resp(200, Absent, "Booking successfully scheduled", Absent, Absent,
                 NameOf(finalCenterID[r]), finalCenterID[r])

LogOkOverwrite(r) ==
    /\ pc[r] = "log"
    /\ \E logId \in LogIds :
         /\ logs' = {Stored(r, LogOf(r, logId))}
         /\ resp' = [resp EXCEPT ![r] = Success(r, logId)]
    /\ logErr' = [logErr EXCEPT ![r] = "ok"]
    /\ Spawn(r)
    /\ pc' = [pc EXCEPT ![r] = "respond"]
    /\ UNCHANGED <<variant, bookings, centers, req, finalCenterID, isAutoAssigned,
                   lookup, insertErr, seen, harnessVars>>

\* logsCollection.InsertOne succeeds; then the goroutine is started and the
\* response value is built (it is written by Respond)
LogOk(r) ==
    /\ pc[r] = "log"
    /\ \E logId \in LogIds :
         /\ logs' = logs \cup {Stored(r, LogOf(r, logId))}
         /\ resp' = [resp EXCEPT ![r] = Success(r, logId)]
    /\ logErr' = [logErr EXCEPT ![r] = "ok"]
    /\ Spawn(r)
    /\ pc' = [pc EXCEPT ![r] = "respond"]
    /\ UNCHANGED <<variant, bookings, centers, req, finalCenterID, isAutoAssigned,
                   lookup, insertErr, seen, harnessVars>>

\* logsCollection.InsertOne fails: the error is dropped (remote, local) or printed
LogFail(r) ==
    /\ pc[r] = "log"
    /\ \E logId \in LogIds :
         resp' = [resp EXCEPT ![r] = Success(r, logId)]
    /\ logErr' = [logErr EXCEPT ![r] = "err"]
    /\ Spawn(r)
    /\ pc' = [pc EXCEPT ![r] = "respond"]
    /\ UNCHANGED <<variant, storeVars, req, finalCenterID, isAutoAssigned,
                   lookup, insertErr, seen, harnessVars>>

RespondCancelsMirror(r) ==
    /\ pc[r] = "respond"
    /\ pc' = [pc EXCEPT ![r] = "done"]
    /\ mirror' = [mirror EXCEPT ![r] = IF @ = "pending" THEN "none" ELSE @]
    /\ UNCHANGED <<variant, storeVars, req, finalCenterID, isAutoAssigned, lookup,
                   insertErr, logErr, resp, seen, harnessVars>>

RespondAfterMirror(r) ==
    /\ pc[r] = "respond"
    /\ mirror[r] # "pending"
    /\ pc' = [pc EXCEPT ![r] = "done"]
    /\ UNCHANGED <<variant, storeVars, req, finalCenterID, isAutoAssigned, lookup,
                   insertErr, logErr, mirror, resp, seen, harnessVars>>

\* c.JSON(http.StatusOK, ...)
Respond(r) ==
    /\ pc[r] = "respond"
    /\ pc' = [pc EXCEPT ![r] = "done"]
    /\ UNCHANGED <<variant, storeVars, req, finalCenterID, isAutoAssigned, lookup,
                   insertErr, logErr, mirror, resp, seen, harnessVars>>

-----------------------------------------------------------------------------
(* Center Mirror Updater: the goroutine *)

\* UpdateOne(filter {"centerId": id}) touches the first matching document
Matching(id) == { i \in DOMAIN centers : centers[i].id = id }

FirstMatch(id) == CHOOSE i \in Matching(id) : \A j \in Matching(id) : i <= j

PushedAll(i, doc) ==
    [j \in DOMAIN centers |->
        [centers[j] EXCEPT !.bookings = Append(centers[j].bookings, doc)]]

\* $push bookings: bookingToSave
Pushed(i, doc) ==
    [centers EXCEPT ![i].bookings = Append(centers[i].bookings, doc)]

MirrorApplyRetry(r) ==
    /\ mirror[r] \in {"pending", "failed"}
    /\ IF Matching(finalCenterID[r]) = {}
       THEN /\ mirror' = [mirror EXCEPT ![r] = "nomatch"]
            /\ UNCHANGED centers
       ELSE /\ mirror' = [mirror EXCEPT ![r] = "modified"]
            /\ centers' = Pushed(FirstMatch(finalCenterID[r]), BookingToSave(r))
    /\ UNCHANGED <<variant, bookings, logs, pc, req, finalCenterID, isAutoAssigned,
                   lookup, insertErr, logErr, resp, seen, harnessVars>>

\* UpdateOne returns without error (ModifiedCount 1 or 0)
MirrorApply(r) ==
    /\ mirror[r] = "pending"
    /\ IF Matching(finalCenterID[r]) = {}
       THEN /\ mirror' = [mirror EXCEPT ![r] = "nomatch"]
            /\ UNCHANGED centers
       ELSE /\ mirror' = [mirror EXCEPT ![r] = "modified"]
            /\ centers' = Pushed(FirstMatch(finalCenterID[r]), BookingToSave(r))
    /\ UNCHANGED <<variant, bookings, logs, pc, req, finalCenterID, isAutoAssigned,
                   lookup, insertErr, logErr, resp, seen, harnessVars>>

\* UpdateOne returns an error or its 5 s context expires: printed, not retried
MirrorFail(r) ==
    /\ mirror[r] = "pending"
    /\ mirror' = [mirror EXCEPT ![r] = "failed"]
    /\ UNCHANGED <<variant, storeVars, pc, req, finalCenterID, isAutoAssigned,
                   lookup, insertErr, logErr, resp, seen, harnessVars>>

-----------------------------------------------------------------------------
(* The service *)

Next ==
    \E r \in Requests :
        \/ BadJSON(r)
        \/ StartRemote(r)
        \/ StartLocal(r)
        \/ StartPrefix(r)
        \/ PersistOk(r)
        \/ PersistFail(r)
        \/ LogOk(r)
        \/ LogFail(r)
        \/ Respond(r)
        \/ MirrorApply(r)
        \/ MirrorFail(r)

Spec == Init /\ [][Next]_vars

-----------------------------------------------------------------------------
(* The selectors alone, on every bounded candidate list *)

serviceVars == <<variant, bookings, logs, centers, pc, req, finalCenterID,
                 isAutoAssigned, lookup, insertErr, logErr, mirror, resp, seen>>

SelInit ==
    /\ variant \in Variants
    /\ bookings = {}
    /\ logs = {}
    /\ centers = <<>>
    /\ pc = [r \in Requests |-> "idle"]
    /\ req = [r \in Requests |-> NoReq]
    /\ finalCenterID = [r \in Requests |-> Absent]
    /\ isAutoAssigned = [r \in Requests |-> FALSE]
    /\ lookup = [r \in Requests |-> "none"]
    /\ insertErr = [r \in Requests |-> "none"]
    /\ logErr = [r \in Requests |-> "none"]
    /\ mirror = [r \in Requests |-> "none"]
    /\ resp = [r \in Requests |-> NoResp]
    /\ seen = [r \in Requests |-> "none"]
    /\ candidates \in CandLists
    /\ chosen = NoChoice

ChooseRemote ==
    /\ variant = "remote"
    /\ chosen = NoChoice
    /\ chosen' = Choice("remote", candidates, SelectRemote(candidates))
    /\ UNCHANGED <<serviceVars, candidates>>

\* the query hands the selector the active centers only
ChooseLocal ==
    /\ variant = "local"
    /\ chosen = NoChoice
    /\ ActiveCenters(candidates) # <<>>
    /\ chosen' = Choice("local", ActiveCenters(candidates),
                        SelectLocal(ActiveCenters(candidates)))
    /\ UNCHANGED <<serviceVars, candidates>>

ChoosePrefix ==
    /\ variant = "prefix"
    /\ chosen = NoChoice
    /\ chosen' = Choice("prefix", candidates, SelectPrefix(candidates))
    /\ UNCHANGED <<serviceVars, candidates>>

SelNext == ChooseRemote \/ ChooseLocal \/ ChoosePrefix

SelSpec == SelInit /\ [][SelNext]_vars

-----------------------------------------------------------------------------
(* The service with its handler steps scheduled *)

\* the next step of a request that is inside handleBooking
HandlerStep(r) ==
    PersistOk(r) \/ PersistFail(r) \/ LogOk(r) \/ LogFail(r) \/ Respond(r)

\* every database call of the handler runs under context.WithTimeout(10 s) and
\* returns a result or an error, after which the handler goes on; the detached
\* center update is not awaited and gets no fairness here
HandlerFairness == \A r \in Requests : WF_vars(HandlerStep(r))

LiveSpec == Init /\ [][Next]_vars /\ HandlerFairness

\* the step that ends a spawned center update
MirrorStep(r) == MirrorApply(r) \/ MirrorFail(r)

\* the goroutine is scheduled by the Go runtime and its UpdateOne runs under
\* context.WithTimeout(context.Background(), 5 s): it returns a result or an error
MirrorFairness == \A r \in Requests : WF_vars(MirrorStep(r))

MirrorLiveSpec == Init /\ [][Next]_vars /\ HandlerFairness /\ MirrorFairness

-----------------------------------------------------------------------------
(* Properties *)

Wrote(r) == \E b \in bookings : b.oid = r
Logged(r) == \E l \in logs : l.oid = r
Answered(r) == pc[r] = "done"

\* C1: a request that arrives while Bookings holds a scheduled booking for its
\* vehicle writes no booking, and when it is answered 200 the message is
\* "already booked".
C1_FreezeWhileScheduled ==
    \A r \in Requests :
        seen[r] = "scheduled" =>
            /\ ~Wrote(r)
            /\ (Answered(r) /\ resp[r].status = 200) => resp[r].message = "already booked"

\* C2: a request that arrives while Bookings holds only an unscheduled booking
\* for its vehicle, and whose write succeeds, creates no second document (the
\* existing one is replaced in place) and every log entry it appends has action
\* UPDATED_SCHEDULE.
C2_UpdateWhileUnscheduled ==
    \A r \in Requests :
        (seen[r] = "unscheduled" /\ insertErr[r] = "ok") =>
            /\ ~Wrote(r)
            /\ \E b \in bookings :
                 /\ b.vehicleId = req[r].vehicleId
                 /\ b.confirmationCode = req[r].confirmationCode
                 /\ b.status = req[r].status
            /\ \A l \in logs : l.oid = r => l.action = "UPDATED_SCHEDULE"

\* C3: in every reachable state Bookings holds at most one document per vehicleId.
C3_OneBookingPerVehicle ==
    \A b1, b2 \in bookings : b1.vehicleId = b2.vehicleId => b1 = b2

\* C4: a request of the remote or local snapshot whose serviceCenterId is neither
\* empty nor "null" never calls the directory, and its 200 response carries
\* assignedCenter equal to the supplied id.
C4_ExplicitCenterUsedAsIs ==
    \A r \in Requests :
        (variant \in {"remote", "local"} /\ pc[r] # "idle" /\ req[r] # NoReq
            /\ ~CenterMissing(req[r].serviceCenterId)) =>
            /\ lookup[r] = "none"
            /\ (Answered(r) /\ resp[r].status = 200) =>
                    resp[r].assignedCenter = req[r].serviceCenterId

\* the list the selector was given: the local query returns active centers only
Given == IF chosen.policy = "local" THEN ActiveCenters(candidates) ELSE candidates

HasNamed(cs) == \E i \in DOMAIN cs : cs[i].id # ""

\* the first position, in input order, with the fewest bookings among S
FirstMin(cs, S) ==
    CHOOSE i \in S :
        \A j \in S : Load(cs[i]) < Load(cs[j]) \/ (Load(cs[i]) = Load(cs[j]) /\ i <= j)

UnderCapacity(cs) == { i \in DOMAIN cs : Load(cs[i]) < cs[i].capacity }

\* C5 as stated: under both least-load snapshots, a list with at least one
\* non-empty id yields the id of the first entry with the global minimum load.
C5_LeastLoadGlobalMin ==
    (chosen.policy \in {"remote", "local"} /\ HasNamed(Given)) =>
        /\ chosen.found
        /\ chosen.id = Given[FirstMin(Given, DOMAIN Given)].id

\* C5 amended: the remote snapshot yields the id of the first entry with the
\* global minimum load; the local snapshot yields the first entry with the
\* minimum load among the entries below capacity, and the first entry with the
\* global minimum only when no entry is below capacity.
C5_LeastLoadAmended ==
    (chosen.policy \in {"remote", "local"} /\ HasNamed(Given)) =>
        /\ chosen.found
        /\ chosen.id =
             Given[IF chosen.policy = "local" /\ UnderCapacity(Given) # {}
                   THEN FirstMin(Given, UnderCapacity(Given))
                   ELSE FirstMin(Given, DOMAIN Given)].id

\* a local choice where the capacity test moved the choice off the global minimum
C5_Witness ==
    /\ chosen.policy = "local"
    /\ HasNamed(Given)
    /\ UnderCapacity(Given) # {}
    /\ FirstMin(Given, UnderCapacity(Given)) # FirstMin(Given, DOMAIN Given)
    /\ chosen.index = FirstMin(Given, UnderCapacity(Given))

\* C6: in the local snapshot, a request that needs auto-assignment and whose
\* directory query returns only centers with an empty id (or none) ends with 404.
C6_NoCandidateIs404 ==
    [][\A r \in Requests :
        (/\ variant = "local"
         /\ pc[r] = "idle" /\ pc'[r] # "idle"
         /\ lookup'[r] = "ok"
         /\ ~HasNamed(ActiveCenters(centers)))
        => (pc'[r] = "done" /\ resp'[r].status = 404)]_vars

\* C7 as stated: after a failed directory lookup the request proceeds with the
\* fallback center, marked auto-assigned, and is answered 200.
C7_LookupFailureFallsBack ==
    \A r \in Requests :
        lookup[r] = "failed" =>
            /\ finalCenterID[r] = FallbackCenter
            /\ isAutoAssigned[r]
            /\ Answered(r) => resp[r].status = 200

\* C7 amended: in the remote snapshot a failed lookup does not end the request:
\* it goes on with CENTER_001 marked auto-assigned; if the booking write succeeds
\* the stored booking has that center, every log entry it appends has action
\* AUTO_ASSIGNED_CREATED and the answer is 200 (500 if the write fails).  In the
\* local and prefix snapshots a failed lookup ends the request with 500 / 502
\* and nothing written.
C7_LookupFailureAmended ==
    \A r \in Requests :
        lookup[r] = "failed" =>
            IF variant = "remote"
            THEN /\ finalCenterID[r] = FallbackCenter
                 /\ isAutoAssigned[r]
                 /\ \A b \in bookings : b.oid = r => b.serviceCenterId = FallbackCenter
                 /\ \A l \in logs : l.oid = r =>
                        l.action = "AUTO_ASSIGNED_CREATED" /\ l.serviceCenter = FallbackCenter
                 /\ insertErr[r] = "ok" => Wrote(r)
                 /\ Answered(r) =>
                        resp[r].status = (IF insertErr[r] = "ok" THEN 200 ELSE 500)
            ELSE /\ Answered(r)
                 /\ resp[r].status = (IF variant = "local" THEN 500 ELSE 502)
                 /\ ~Wrote(r) /\ ~Logged(r) /\ mirror[r] = "none"

\* a remote request answered 200 after a failed lookup, its log entry written
C7_Witness ==
    \E r \in Requests :
        /\ variant = "remote"
        /\ lookup[r] = "failed"
        /\ Answered(r) /\ resp[r].status = 200
        /\ Wrote(r) /\ Logged(r)

C8_Inv ==
    \A r \in Requests :
        insertErr[r] = "err" =>
            /\ Answered(r)
            /\ resp[r].status = 500
            /\ logErr[r] = "none" /\ ~Logged(r)
            /\ mirror[r] = "none"
            /\ ~Wrote(r)

C8_Step ==
    \A r \in Requests :
        (insertErr[r] = "none" /\ insertErr'[r] = "err") => UNCHANGED storeVars

\* C8: a request whose booking write fails is answered 500, appends no log entry
\* and spawns no mirror update, and the step leaves Bookings, Logs and every
\* center's booking list unchanged.
C8_WriteFailureIsTerminal == []C8_Inv /\ [][C8_Step]_vars

\* a failed booking write while another request's booking is stored
C8_Witness ==
    \E r \in Requests :
        /\ insertErr[r] = "err" /\ Answered(r)
        /\ bookings # {}

ErrorStatuses == {400, 404, 500, 502}

C9_Inv ==
    \A r \in Requests :
        (resp[r].error # Absent /\ insertErr[r] = "none") =>
            /\ Answered(r)
            /\ resp[r].status \in ErrorStatuses
            /\ ~Wrote(r) /\ ~Logged(r)
            /\ mirror[r] = "none"

C9_Step ==
    \A r \in Requests :
        (pc[r] = "idle" /\ pc'[r] = "done") => UNCHANGED <<storeVars, mirror>>

\* C9: a request that gets its error response before the booking write (bad
\* JSON, failed lookup without fallback, no eligible center) is finished, has
\* written no booking or log entry and spawned no mirror update, and its step
\* leaves Bookings, Logs and the centers unchanged.
C9_EarlyFailureWritesNothing == []C9_Inv /\ [][C9_Step]_vars

\* a 404 for want of a center while another request's booking is stored
C9_Witness ==
    \E r \in Requests :
        /\ Answered(r) /\ resp[r].status = 404
        /\ bookings # {}

\* C10: when the booking write succeeded and the log write failed, the request
\* is answered 200, its booking stays in Bookings and its mirror update is spawned.
C10_LogFailureIsSwallowed ==
    \A r \in Requests :
        (insertErr[r] = "ok" /\ logErr[r] = "err") =>
            /\ Wrote(r)
            /\ mirror[r] # "none"
            /\ Answered(r) => resp[r].status = 200

C11_Inv ==
    \A r \in Requests :
        /\ (insertErr[r] = "ok" /\ Answered(r)) => resp[r].status = 200
        /\ pc[r] = "respond" => ENABLED Respond(r)

C11_Step ==
    \A r \in Requests :
        (mirror[r] = "pending" /\ mirror'[r] # "pending") => UNCHANGED <<pc, resp>>

\* C11: a request whose booking write succeeded is answered 200 whatever becomes
\* of its mirror update; the response step is enabled whether or not the mirror
\* update has finished, and the end of a mirror update (success, no match or
\* failure) changes no request's position or response.
C11_MirrorNeverBlocksResponse == []C11_Inv /\ [][C11_Step]_vars

\* one request answered 200 with its mirror update still pending, another
\* answered 200 although its mirror update failed
C11_Witness ==
    \E r1, r2 \in Requests :
        /\ Answered(r1) /\ resp[r1].status = 200 /\ mirror[r1] = "pending"
        /\ Answered(r2) /\ resp[r2].status = 200 /\ mirror[r2] = "failed"

MirrorDone == {"modified", "nomatch", "failed"}

\* number of bookings appended to center lists since the start
RECURSIVE MirroredIn(_, _)
MirroredIn(cs, i) ==
    IF i > Len(cs) THEN 0
    ELSE Cardinality({ k \in DOMAIN cs[i].bookings : cs[i].bookings[k] # OldBooking })
         + MirroredIn(cs, i + 1)

C12_Inv ==
    MirroredIn(centers, 1) = Cardinality({ r \in Requests : mirror[r] = "modified" })

C12_Step ==
    /\ \A r \in Requests :
         mirror'[r] # mirror[r] =>
            \/ mirror[r] = "none" /\ mirror'[r] = "pending"
            \/ mirror[r] = "pending" /\ mirror'[r] \in MirrorDone
    /\ centers' # centers =>
         /\ MirroredIn(centers', 1) = MirroredIn(centers, 1) + 1
         /\ \E r \in Requests :
              /\ mirror[r] = "pending" /\ mirror'[r] = "modified"
              /\ \A q \in Requests \ {r} : mirror'[q] = mirror[q]

\* C12: each request's mirror update is attempted at most once: it is spawned
\* once, ends once (applied, no match, or failed) and never leaves that end
\* state, every change of a center list appends exactly one booking for exactly
\* one pending update, and the center lists hold one appended booking per
\* applied update.
C12_MirrorAtMostOnce == []C12_Inv /\ [][C12_Step]_vars

\* a failed mirror update of a finished request beside an applied one
C12_Witness ==
    \E r1, r2 \in Requests :
        /\ mirror[r1] = "failed" /\ Answered(r1)
        /\ mirror[r2] = "modified"
        /\ MirroredIn(centers, 1) = 1

LogActions == {"CREATED", "AUTO_ASSIGNED_CREATED", "UPDATED_SCHEDULE"}

\* C13: every log entry has an action in {CREATED, AUTO_ASSIGNED_CREATED,
\* UPDATED_SCHEDULE}; it is AUTO_ASSIGNED_CREATED exactly when the request's
\* center came from the selector or the fallback, and CREATED when the caller
\* supplied the center.
C13_LogActionClosedSet ==
    \A l \in logs :
        /\ l.action \in LogActions
        /\ l.action = "AUTO_ASSIGNED_CREATED" <=> lookup[l.oid] # "none"
        /\ lookup[l.oid] = "none" => l.action = "CREATED"

\* C14: every 200 response carries bookingStatus "Confirmed", message
\* "Successfully saved", a generated log id, and assignedCenter equal to the
\* serviceCenterId of the booking the same request stored.
C14_SuccessResponseFields ==
    \A r \in Requests :
        (Answered(r) /\ resp[r].status = 200) =>
            /\ resp[r].bookingStatus = "Confirmed"
            /\ resp[r].message = "Successfully saved"
            /\ resp[r].generatedLogId \in LogIds
            /\ resp[r].assignedCenter = finalCenterID[r]
            /\ \E b \in bookings :
                 b.oid = r /\ b.serviceCenterId = resp[r].assignedCenter

Free(c) == c.capacity - Load(c)

ActiveIdx(cs) == { i \in DOMAIN cs : cs[i].isActive }

LogsOf(r) == { l \in logs : l.oid = r }

C16_Inv ==
    /\ \A r \in Requests :
         /\ Logged(r) => Wrote(r)
         /\ mirror[r] # "none" => Wrote(r)
         /\ Cardinality(LogsOf(r)) <= 1
    /\ \A i \in DOMAIN centers : \A k \in DOMAIN centers[i].bookings :
         centers[i].bookings[k] # OldBooking =>
            \E r \in Requests :
                /\ Wrote(r) /\ mirror[r] = "modified"
                /\ centers[i].bookings[k] = BookingToSave(r)

C16_Step ==
    /\ logs' # logs =>
         \E r \in Requests :
            /\ pc[r] = "log" /\ insertErr[r] = "ok" /\ Wrote(r) /\ ~Logged(r)
            /\ \E l \in logs' : l.oid = r /\ logs' = logs \cup {l}
    /\ centers' # centers =>
         \E r \in Requests : mirror[r] = "pending" /\ Wrote(r)

\* C16: a request's log entry is appended only after its booking write
\* succeeded and at most once; its booking is appended to a center only after
\* its booking write succeeded; no log entry or appended center-list entry
\* exists for a request without a stored booking.
C16_WriteThenMirror == []C16_Inv /\ [][C16_Step]_vars

\* one request wrote, logged and mirrored its booking; another's write failed
C16_Witness ==
    \E r1, r2 \in Requests :
        /\ Wrote(r1) /\ Logged(r1) /\ mirror[r1] = "modified"
        /\ insertErr[r2] = "err" /\ Answered(r2)

HasActiveNamed(cs) == \E i \in DOMAIN cs : cs[i].isActive /\ cs[i].id # ""

\* C17 as stated: under the local and prefix policies a list with at least one
\* active candidate with a non-empty id always yields a center.
C17_NoCandidateOnlyWhenIneligible ==
    (chosen.policy \in {"local", "prefix"} /\ HasActiveNamed(candidates)) =>
        chosen.found

\* C17 amended: the local policy yields a center whenever the list has an active
\* candidate, whatever the capacities and loads; the prefix policy yields a
\* center exactly when some active candidate has len(bookings) <= capacity,
\* and none when every active candidate holds more bookings than its capacity.
C17_NoCandidateAmended ==
    /\ (chosen.policy = "local" /\ HasActiveNamed(candidates)) => chosen.found
    /\ chosen.policy = "prefix" =>
         (chosen.found <=>
            \E i \in ActiveIdx(candidates) : Free(candidates[i]) >= 0)

\* an active candidate with a non-empty id is there, over its capacity, and
\* the prefix policy yields no center
C17_Witness ==
    /\ chosen.policy = "prefix"
    /\ HasActiveNamed(candidates)
    /\ ~chosen.found

\* C18: the center a policy selects is active in the list it was chosen from.
C18_NeverSelectsInactive ==
    chosen.found => Given[chosen.index].isActive

\* C19: no stored booking whose center came from the selector has an empty
\* serviceCenterId.
C19_EmptyIdSkipped ==
    \A b \in bookings : lookup[b.oid] = "ok" => b.serviceCenterId # ""

TerminalStatuses == {200, 400, 404, 500, 502}

C20_Inv ==
    \A r \in Requests :
        /\ pc[r] \in {"persist", "log", "respond"} => ENABLED HandlerStep(r)
        /\ Answered(r) => resp[r].status \in TerminalStatuses

C20_Step ==
    \A r \in Requests :
        pc[r] = "done" => (pc'[r] = "done" /\ resp'[r] = resp[r])

\* C20: every request that has entered the handler eventually has one terminal
\* response (400, 404, 500, 502 or 200); a request inside the handler always
\* has an enabled next step, whatever failed before, and once answered its
\* response never changes.
C20_EveryRequestAnswered ==
    /\ []C20_Inv
    /\ [][C20_Step]_vars
    /\ \A r \in Requests : (pc[r] # "idle") ~> Answered(r)

\* both requests answered: one 200 after its log write failed, one an error
\* after a failed directory lookup or a failed booking write
C20_Witness ==
    \E r1, r2 \in Requests :
        /\ Answered(r1) /\ resp[r1].status = 200 /\ logErr[r1] = "err"
        /\ Answered(r2) /\ (lookup[r2] = "failed" \/ insertErr[r2] = "err")

C21_Inv ==
    \A r \in Requests : mirror[r] = "pending" => ENABLED MirrorStep(r)

C21_Step ==
    \A r \in Requests :
        (mirror[r] = "pending" /\ pc'[r] # pc[r]) => mirror'[r] = "pending"

\* C21: every spawned mirror update eventually ends (applied, no match, or
\* failed); while it is pending its ending step is enabled wherever the request
\* stands, and a step of the request (its response included) leaves it pending.
C21_MirrorEventuallyFinishes ==
    /\ []C21_Inv
    /\ [][C21_Step]_vars
    /\ \A r \in Requests : (mirror[r] = "pending") ~> (mirror[r] \in MirrorDone)

\* both requests answered, their mirror updates ended, one applied
C21_Witness ==
    \A r \in Requests :
        /\ Answered(r) /\ resp[r].status = 200
        /\ mirror[r] \in MirrorDone
        /\ \E q \in Requests : mirror[q] = "modified"

C22_Inv ==
    \A i \in DOMAIN centers : \A k \in DOMAIN centers[i].bookings :
        centers[i].bookings[k] # OldBooking =>
            centers[i].bookings[k].serviceCenterId = centers[i].id

C22_Step ==
    /\ centers' # centers =>
         \E r \in Requests : \E i \in DOMAIN centers :
            /\ mirror[r] = "pending" /\ insertErr[r] = "ok"
            /\ centers[i].id = finalCenterID[r]
            /\ DOMAIN centers' = DOMAIN centers
            /\ \A j \in DOMAIN centers : j # i => centers'[j] = centers[j]
            /\ Len(centers'[i].bookings) = Len(centers[i].bookings) + 1
            /\ SubSeq(centers'[i].bookings, 1, Len(centers[i].bookings))
                 = centers[i].bookings
            /\ centers'[i] = [centers[i] EXCEPT !.bookings = centers'[i].bookings]
    /\ \A r \in Requests :
         (mirror'[r] # mirror[r] /\ Matching(finalCenterID[r]) = {}) =>
            centers' = centers

\* C22: every change of the center lists is one request's pending mirror update
\* appending one entry to one center whose id equals that request's
\* finalCenterID, all other centers and all other fields staying as they were;
\* a mirror update whose id matches no center changes nothing; every appended
\* entry sits in the center its serviceCenterId names.
C22_MirrorFrame == []C22_Inv /\ [][C22_Step]_vars

\* one update found no center with its id, another appended to its center while
\* a second center exists
C22_Witness ==
    /\ Len(centers) >= 2
    /\ \E r1, r2 \in Requests :
         /\ mirror[r1] = "nomatch" /\ Matching(finalCenterID[r1]) = {}
         /\ mirror[r2] = "modified"

\* the booking field the log's service-center field is taken from: the id in
\* the remote and local snapshots, the name in the prefix snapshot
CenterAsLogged(b) ==
    IF variant = "prefix" THEN b.serviceCenterName ELSE b.serviceCenterId

\* C23: every log entry repeats the booking its request stored: vehicleId,
\* userId, confirmationCode, status, service center, scheduled time, isScheduled.
C23_LogIsBookingSnapshot ==
    \A l \in logs :
        \E b \in bookings :
            /\ b.oid = l.oid
            /\ l.vehicleId = b.vehicleId
            /\ l.userId = b.userId
            /\ l.confirmationCode = b.confirmationCode
            /\ l.status = b.status
            /\ l.serviceCenter = CenterAsLogged(b)
            /\ l.scheduledAt = b.dateTime
            /\ l.isScheduled = b.isScheduled

\* C24: no step removes or alters a stored log entry or a stored booking.
C24_StoresOnlyGrow ==
    [][logs \subseteq logs' /\ bookings \subseteq bookings']_vars

\* two bookings and two log entries stored
C24_Witness ==
    /\ Cardinality(bookings) = 2
    /\ Cardinality(logs) = 2

\* C25: the local policy selects, when some active candidate is below its
\* capacity, the first candidate with the fewest bookings among those below
\* capacity; it selects a candidate at or over capacity only when every
\* candidate is, and then the first one with the fewest bookings of all.
C25_LocalCapacityLeastLoad ==
    chosen.policy = "local" =>
        /\ chosen.found
        /\ IF UnderCapacity(Given) # {}
           THEN /\ chosen.index = FirstMin(Given, UnderCapacity(Given))
                /\ Load(Given[chosen.index]) < Given[chosen.index].capacity
           ELSE chosen.index = FirstMin(Given, DOMAIN Given)
        /\ Load(Given[chosen.index]) >= Given[chosen.index].capacity =>
              UnderCapacity(Given) = {}

\* every candidate is at or over capacity and the second has fewer bookings
C25_Witness ==
    /\ chosen.policy = "local"
    /\ Len(Given) = 2
    /\ UnderCapacity(Given) = {}
    /\ chosen.index = 2

\* bookings a center held at the start
InitialLoad(c) ==
    Cardinality({ k \in DOMAIN c.bookings : c.bookings[k] = OldBooking })

RECURSIVE InitialFree(_, _)
InitialFree(cs, i) ==
    IF i > Len(cs) THEN 0
    ELSE (IF cs[i].isActive /\ cs[i].capacity > InitialLoad(cs[i])
          THEN cs[i].capacity - InitialLoad(cs[i]) ELSE 0)
         + InitialFree(cs, i + 1)

AutoAssigned == { r \in Requests : lookup[r] = "ok" }

\* C26: in the local snapshot, when every center started within its capacity,
\* only auto-assigned requests have been served and they are no more than the
\* free capacity the active centers started with, no center's booking list is
\* longer than its capacity.
C26_CapacityUnderConcurrency ==
    (/\ variant = "local"
     /\ \A i \in DOMAIN centers : InitialLoad(centers[i]) <= centers[i].capacity
     /\ \A r \in Requests : mirror[r] # "none" => r \in AutoAssigned
     /\ Cardinality(AutoAssigned) <= InitialFree(centers, 1))
    => \A i \in DOMAIN centers : Len(centers[i].bookings) <= centers[i].capacity

=============================================================================
